---- MODULE Spec2Model ----
(***************************************************************************)
(* ISTAtrol heating valve controller, firmware/main.c.                     *)
(*                                                                         *)
(* The main loop (temp_measure, the cadence gate, the regulation step and  *)
(* the motor pulses) is modelled statement by statement; the analog        *)
(* comparator interrupt ISR(ANA_COMP_vect) may preempt it between any two  *)
(* statements.  The target is an AVR: int is 16 bits wide, uint16_t        *)
(* arithmetic wraps modulo 2^16 and signed overflow is undefined.          *)
(***************************************************************************)
EXTENDS Integers, Sequences, FiniteSets, TLC

VARIABLES
  TARGET_TEMPERATURE,      \* calibration value of the build (line 60)
  RADIATOR_RESPONSE_TIME,  \* calibration value of the build (line 91)
  temp_c,                  \* smoothed reading used for controlling
  temp_temp,               \* reading directly from the counter
  temp_temp_eight,         \* accumulator of the 8-value average
  conversion_done,         \* single-shot guard of the interrupt
  temp_last,               \* answer.temp_last
  motor_moved,             \* answer.motor_moved
  time,                    \* cycle counter of main()
  temp_future,             \* extrapolated reading of the regulation step
  MOT_OPEN,                \* output line, valve open
  MOT_CLOSE,               \* output line, valve close
  TEMP_C,                  \* output line, excitation of the thermistor
  pc,                      \* position of the main loop
  i,                       \* loop index of poll_a_second()
  edges,                   \* history: comparator edges since the guard was cleared
  captured,                \* history: counter value read by the edge that set the guard
  fresh,                   \* history: start of measurement has run and no edge fired since
  reply,                   \* history: what the latest usbPoll() handed to the host
  fetched,                 \* history: an earlier usbPoll() since the last decision sent a reply
  hist,                    \* history: the trailing raw readings folded into the filter
  cycles,                  \* history: measurement cycles started
  since                    \* history: measurement cycles completed since the last decision

vars == <<TARGET_TEMPERATURE, RADIATOR_RESPONSE_TIME, temp_c, temp_temp,
          temp_temp_eight, conversion_done, temp_last, motor_moved, time,
          temp_future, MOT_OPEN, MOT_CLOSE, TEMP_C, pc, i, edges, captured,
          fresh, reply, fetched, hist, cycles, since>>

---------------------------------------------------------------------------
(* Bounds of the model. *)

\* measurement cycles of one run
MaxCycles == 4
\* largest RADIATOR_RESPONSE_TIME a build is given (documented range 0..65535)
MaxResponse == 2
\* comparator edges followed per measurement cycle
MaxEdges == 2
\* filter updates of one run of the filter alone
MaxSamples == 9

\* measurement cycles with a freely chosen reading before the readings stay the same
MaxVaried == 2

(* Program constants. *)

THERMISTOR_HYSTERESIS == 50
PREDICTION_STEEPNESS == 4
\* TARGET_TEMPERATURE below which the 8-value average is compiled in
EightValueLimit == 7000
\* slices of poll_a_second()
PollSlices == 25
\* uint16_t and the 16 bit int of the AVR
Word == 65536
IntMax == 32767
\* weight of the 8-value average
Eight == 8
\* the markers of answer.motor_moved
MarkNone == 32
MarkOpened == 43
MarkClosed == 45

\* TARGET_TEMPERATURE of the builds looked at: one per averaging policy
Targets == {5800, 8000}
\* Timer 1 readings a comparator edge may capture
RawValues == {5000, 6000, 20000}

NoReply == [temp |-> -1, moved |-> -1]

---------------------------------------------------------------------------
(* Arithmetic of the AVR. *)

\* conversion of a 16 bit pattern to int16_t
AsInt16(x) == IF x > IntMax THEN x - Word ELSE x

\* conversion of an integer to uint16_t
AsUint16(x) == x % Word

SeqMin(s) == CHOOSE x \in {s[k] : k \in 1..Len(s)} : \A y \in {s[k] : k \in 1..Len(s)} : x <= y
SeqMax(s) == CHOOSE x \in {s[k] : k \in 1..Len(s)} : \A y \in {s[k] : k \in 1..Len(s)} : x >= y
Min2(a, b) == IF a <= b THEN a ELSE b
Max2(a, b) == IF a >= b THEN a ELSE b

---------------------------------------------------------------------------
(* Temperature smoothing, temp_measure() lines 367..375. *)

\* EightAccumulate without taking the old share out
EightAccumulate_keep(acc, c, raw) == AsUint16(acc + raw)

\* EightAccumulate with the reading and the old share exchanged
EightAccumulate_exchanged(acc, c, raw) == AsUint16(AsUint16(acc - raw) + c)

\* temp_temp_eight -= temp_c; temp_temp_eight += temp_temp;
EightAccumulate(acc, c, raw) == AsUint16(AsUint16(acc - c) + raw)

\* EightSmooth dividing by 16
EightSmooth_sixteenth(acc) == acc \div (2 * Eight)

\* temp_c = temp_temp_eight / 8;
EightSmooth(acc) == acc \div Eight

\* temp_c = (temp_temp + temp_c + 1) / 2;
TwoPointSmooth(c, raw) == AsUint16(raw + c + 1) \div 2

UsesEight == TARGET_TEMPERATURE < EightValueLimit

---------------------------------------------------------------------------
(* The regulation step, main() lines 498..511. *)

\* outcomes looked at where the C arithmetic is undefined
UndefinedSamples == {0, Word - 1} \cup Targets

\* (int16_t)temp_c - (int16_t)answer.temp_last, in int
TrendTerm(c, last) == AsInt16(c) - AsInt16(last)

\* signed overflow of the difference or of the multiplication by the steepness
Overflows(c, last) ==
  \/ TrendTerm(c, last) > IntMax
  \/ TrendTerm(c, last) < -IntMax - 1
  \/ PREDICTION_STEEPNESS * TrendTerm(c, last) > IntMax
  \/ PREDICTION_STEEPNESS * TrendTerm(c, last) < -IntMax - 1

\* temp_future = temp_c + PREDICTION_STEEPNESS * (...): the int is converted to
\* unsigned, the sum wraps and is stored in a uint16_t
Extrapolate(c, last) ==
  IF Overflows(c, last)
  THEN {AsUint16(c + PREDICTION_STEEPNESS * TrendTerm(c, last))} \cup UndefinedSamples
  ELSE {AsUint16(c + PREDICTION_STEEPNESS * TrendTerm(c, last))}

\* SelectAction with the two valve directions exchanged
SelectAction_swapped(future, target) ==
  IF future < AsUint16(target - THERMISTOR_HYSTERESIS) THEN "open"
  ELSE IF future > AsUint16(target + THERMISTOR_HYSTERESIS) THEN "close"
  ELSE "none"

\* SelectAction with the upper edge of the corridor outside of it
SelectAction_edge(future, target) ==
  IF future < AsUint16(target - THERMISTOR_HYSTERESIS) THEN "close"
  ELSE IF future >= AsUint16(target + THERMISTOR_HYSTERESIS) THEN "open"
  ELSE "none"

\* the if / else if / else of lines 502..511, comparing unsigned
SelectAction(future, target) ==
  IF future < AsUint16(target - THERMISTOR_HYSTERESIS) THEN "close"
  ELSE IF future > AsUint16(target + THERMISTOR_HYSTERESIS) THEN "open"
  ELSE "none"

---------------------------------------------------------------------------
(* The reply to the host, usbFunctionSetup() lines 276..277: the driver sends *)
(* sizeof(answer) bytes read from the struct answer itself.                  *)

\* the reply of a build that sends temp_c
usbFunctionSetup_smoothed == [temp |-> temp_c, moved |-> motor_moved]

usbFunctionSetup == [temp |-> temp_last, moved |-> motor_moved]

---------------------------------------------------------------------------
(* Initial state: the static initialisers, hardware_init() and main()'s     *)
(* locals.  The struct answer has no initialiser and starts as zeroes.      *)

InitialAccumulator(target) == IF target < EightValueLimit THEN AsUint16(target * Eight) ELSE 0

Init ==
  /\ TARGET_TEMPERATURE \in Targets
  /\ RADIATOR_RESPONSE_TIME \in 0..MaxResponse
  /\ temp_c = 0
  /\ temp_temp = 0
  /\ temp_temp_eight = InitialAccumulator(TARGET_TEMPERATURE)
  /\ conversion_done = 0
  /\ temp_last = 0
  /\ motor_moved = 0
  /\ time = 0
  /\ temp_future = 0
  /\ MOT_OPEN = 0
  /\ MOT_CLOSE = 0
  /\ TEMP_C = 0
  /\ pc = "start"
  /\ i = 0
  /\ edges = 0
  /\ captured = 0
  /\ fresh = FALSE
  /\ reply = NoReply
  /\ fetched = FALSE
  /\ hist = <<>>
  /\ cycles = 0
  /\ since = 0

config == <<TARGET_TEMPERATURE, RADIATOR_RESPONSE_TIME>>
motor == <<MOT_OPEN, MOT_CLOSE>>
filter == <<temp_c, temp_temp_eight, hist>>
answer == <<temp_last, motor_moved>>
capture == <<temp_temp, conversion_done, TEMP_C>>

---------------------------------------------------------------------------
(* temp_measure(), lines 351..375. *)

\* TCNT1H = 0; TCNT1L = 0; conversion_done = 0;
start_clear_done ==
  /\ pc = "start"
  /\ cycles < MaxCycles
  /\ conversion_done' = 0
  /\ edges' = 0
  /\ captured' = 0
  /\ fresh' = FALSE
  /\ cycles' = cycles + 1
  /\ pc' = "clear_temp"
  /\ UNCHANGED <<config, motor, filter, answer, temp_temp, TEMP_C, time,
                 temp_future, i, reply, fetched, since>>

\* start_clear_temp leaving the previous reading in temp_temp
start_clear_temp_keep ==
  /\ pc = "clear_temp"
  /\ temp_temp' = temp_temp
  /\ pc' = "excite"
  /\ UNCHANGED <<config, motor, filter, answer, conversion_done, TEMP_C, time,
                 temp_future, i, edges, captured, fresh, reply, fetched, cycles, since>>

\* temp_temp = 0;
start_clear_temp ==
  /\ pc = "clear_temp"
  /\ temp_temp' = 0
  /\ pc' = "excite"
  /\ UNCHANGED <<config, motor, filter, answer, conversion_done, TEMP_C, time,
                 temp_future, i, edges, captured, fresh, reply, fetched, cycles, since>>

\* WRITE(TEMP_C, 1); and the entry of poll_a_second()
start_excite ==
  /\ pc = "excite"
  /\ TEMP_C' = 1
  /\ i' = 0
  /\ fresh' = TRUE
  /\ pc' = "poll"
  /\ UNCHANGED <<config, motor, filter, answer, temp_temp, conversion_done, time,
                 temp_future, edges, captured, reply, fetched, cycles, since>>

\* poll_slice clearing the marker once it is sent
poll_slice_reset ==
  /\ pc = "poll"
  /\ i < PollSlices
  /\ \E request \in BOOLEAN :
       /\ reply' = IF request THEN usbFunctionSetup ELSE NoReply
       /\ motor_moved' = IF request THEN MarkNone ELSE motor_moved
  /\ fetched' = (fetched \/ reply # NoReply)
  /\ i' = i + 1
  /\ UNCHANGED <<config, motor, filter, temp_last, capture, time, temp_future, pc,
                 edges, captured, fresh, cycles, since>>

\* one slice of poll_a_second(): usbPoll(), which answers a status request the
\* host has sent, and _delay_ms(40)
poll_slice ==
  /\ pc = "poll"
  /\ i < PollSlices
  /\ \E request \in BOOLEAN :
       reply' = IF request THEN usbFunctionSetup ELSE NoReply
  /\ fetched' = (fetched \/ reply # NoReply)
  /\ i' = i + 1
  /\ UNCHANGED <<config, motor, filter, answer, capture, time, temp_future, pc,
                 edges, captured, fresh, cycles, since>>

\* the new value of the trailing raw readings
Trailing(h, raw) == IF Len(h) < Eight THEN Append(h, raw) ELSE Append(Tail(h), raw)

\* the smoothing at the end of the wait
filter_update ==
  /\ pc = "poll"
  /\ i = PollSlices
  /\ IF UsesEight
     THEN /\ temp_temp_eight' = EightAccumulate(temp_temp_eight, temp_c, temp_temp)
          /\ temp_c' = EightSmooth(temp_temp_eight')
     ELSE /\ temp_c' = TwoPointSmooth(temp_c, temp_temp)
          /\ UNCHANGED temp_temp_eight
  /\ hist' = Trailing(hist, temp_temp)
  /\ since' = since + 1
  /\ reply' = NoReply
  /\ fetched' = (fetched \/ reply # NoReply)
  /\ pc' = "time"
  /\ UNCHANGED <<config, motor, answer, capture, time, temp_future, i, edges,
                 captured, fresh, cycles>>

---------------------------------------------------------------------------
(* main(), lines 466..515. *)

\* time_gate comparing with >=
time_gate_early ==
  /\ pc = "time"
  /\ time' = AsUint16(time + 1)
  /\ pc' = IF time' >= RADIATOR_RESPONSE_TIME THEN "extrapolate" ELSE "start"
  /\ UNCHANGED <<config, motor, filter, answer, capture, temp_future, i, edges,
                 captured, fresh, reply, fetched, cycles, since>>

\* time++; if (time > RADIATOR_RESPONSE_TIME)
time_gate ==
  /\ pc = "time"
  /\ time' = AsUint16(time + 1)
  /\ pc' = IF time' > RADIATOR_RESPONSE_TIME THEN "extrapolate" ELSE "start"
  /\ UNCHANGED <<config, motor, filter, answer, capture, temp_future, i, edges,
                 captured, fresh, reply, fetched, cycles, since>>

\* uint16_t temp_future = temp_c + PREDICTION_STEEPNESS * (...)
extrapolate ==
  /\ pc = "extrapolate"
  /\ temp_future' \in Extrapolate(temp_c, temp_last)
  /\ pc' = "act"
  /\ UNCHANGED <<config, motor, filter, answer, capture, time, i, edges,
                 captured, fresh, reply, fetched, cycles, since>>

\* motor_close(): WRITE(MOT_CLOSE, 1);
motor_close_begin ==
  /\ pc = "act"
  /\ SelectAction(temp_future, TARGET_TEMPERATURE) = "close"
  /\ MOT_CLOSE' = 1
  /\ pc' = "closing"
  /\ UNCHANGED <<config, MOT_OPEN, filter, answer, capture, time, temp_future, i,
                 edges, captured, fresh, reply, fetched, cycles, since>>

\* motor_close_end leaving the line asserted
motor_close_end_stuck ==
  /\ pc = "closing"
  /\ motor_moved' = MarkClosed
  /\ fetched' = FALSE
  /\ pc' = "reset"
  /\ UNCHANGED <<config, motor, filter, temp_last, capture, time, temp_future,
                 i, edges, captured, fresh, reply, cycles, since>>

\* _delay_ms(MOT_CLOSE_TIME); WRITE(MOT_CLOSE, 0); answer.motor_moved = '-';
motor_close_end ==
  /\ pc = "closing"
  /\ MOT_CLOSE' = 0
  /\ motor_moved' = MarkClosed
  /\ fetched' = FALSE
  /\ pc' = "reset"
  /\ UNCHANGED <<config, MOT_OPEN, filter, temp_last, capture, time, temp_future,
                 i, edges, captured, fresh, reply, cycles, since>>

\* motor_open(): WRITE(MOT_OPEN, 1);
motor_open_begin ==
  /\ pc = "act"
  /\ SelectAction(temp_future, TARGET_TEMPERATURE) = "open"
  /\ MOT_OPEN' = 1
  /\ pc' = "opening"
  /\ UNCHANGED <<config, MOT_CLOSE, filter, answer, capture, time, temp_future, i,
                 edges, captured, fresh, reply, fetched, cycles, since>>

\* motor_open_end without recording the movement
motor_open_end_unrecorded ==
  /\ pc = "opening"
  /\ MOT_OPEN' = 0
  /\ motor_moved' = motor_moved
  /\ fetched' = FALSE
  /\ pc' = "reset"
  /\ UNCHANGED <<config, MOT_CLOSE, filter, temp_last, capture, time, temp_future,
                 i, edges, captured, fresh, reply, cycles, since>>

\* _delay_ms(MOT_OPEN_TIME); WRITE(MOT_OPEN, 0); answer.motor_moved = '+';
motor_open_end ==
  /\ pc = "opening"
  /\ MOT_OPEN' = 0
  /\ motor_moved' = MarkOpened
  /\ fetched' = FALSE
  /\ pc' = "reset"
  /\ UNCHANGED <<config, MOT_CLOSE, filter, temp_last, capture, time, temp_future,
                 i, edges, captured, fresh, reply, cycles, since>>

\* answer.motor_moved = ' ';
motor_none ==
  /\ pc = "act"
  /\ SelectAction(temp_future, TARGET_TEMPERATURE) = "none"
  /\ motor_moved' = MarkNone
  /\ fetched' = FALSE
  /\ pc' = "reset"
  /\ UNCHANGED <<config, motor, filter, temp_last, capture, time, temp_future, i,
                 edges, captured, fresh, reply, cycles, since>>

\* time = 0;
time_reset ==
  /\ pc = "reset"
  /\ time' = 0
  /\ pc' = "store"
  /\ UNCHANGED <<config, motor, filter, answer, capture, temp_future, i, edges,
                 captured, fresh, reply, fetched, cycles, since>>

\* answer.temp_last = temp_c; and the end of temp_future's block
store_last ==
  /\ pc = "store"
  /\ temp_last' = temp_c
  /\ temp_future' = 0
  /\ since' = 0
  /\ pc' = "start"
  /\ UNCHANGED <<config, motor, filter, motor_moved, capture, time, i, edges,
                 captured, fresh, reply, fetched, cycles>>

---------------------------------------------------------------------------
(* ISR(ANA_COMP_vect), lines 409..430.  tcnt1 is what Timer 1 reads at the  *)
(* edge.  The handler runs with interrupts locked, so it is one step.       *)

\* ISR without the guard against additional triggers
ISR_unguarded(tcnt1) ==
  /\ edges < MaxEdges
  /\ edges' = edges + 1
  /\ temp_temp' = tcnt1
  /\ conversion_done' = 1
  /\ TEMP_C' = 0
  /\ captured' = tcnt1
  /\ fresh' = FALSE
  /\ UNCHANGED <<config, motor, filter, answer, time, temp_future, pc, i, reply, fetched,
                 cycles, since>>

\* ISR storing the reading straight into temp_c as well
ISR_smoothing(tcnt1) ==
  /\ edges < MaxEdges
  /\ edges' = edges + 1
  /\ IF conversion_done = 0
     THEN /\ temp_temp' = tcnt1
          /\ temp_c' = tcnt1
          /\ conversion_done' = 1
          /\ TEMP_C' = 0
          /\ captured' = tcnt1
     ELSE UNCHANGED <<capture, captured, temp_c>>
  /\ fresh' = FALSE
  /\ UNCHANGED <<config, motor, temp_temp_eight, hist, answer, time, temp_future, pc, i,
                 reply, fetched, cycles, since>>

ISR(tcnt1) ==
  /\ edges < MaxEdges
  /\ edges' = edges + 1
  /\ IF conversion_done = 0
     THEN /\ temp_temp' = tcnt1
          /\ conversion_done' = 1
          /\ TEMP_C' = 0
          /\ captured' = tcnt1
     ELSE UNCHANGED <<capture, captured>>
  /\ fresh' = FALSE
  /\ UNCHANGED <<config, motor, filter, answer, time, temp_future, pc, i, reply, fetched,
                 cycles, since>>

ANA_COMP_vect == \E tcnt1 \in RawValues : ISR(tcnt1)

---------------------------------------------------------------------------
Next ==
  \/ start_clear_done
  \/ start_clear_temp
  \/ start_excite
  \/ poll_slice
  \/ filter_update
  \/ time_gate
  \/ extrapolate
  \/ motor_close_begin
  \/ motor_close_end
  \/ motor_open_begin
  \/ motor_open_end
  \/ motor_none
  \/ time_reset
  \/ store_last
  \/ ANA_COMP_vect

Spec == Init /\ [][Next]_vars

---------------------------------------------------------------------------
(* The regulation step alone, entered with smoothed and last observed      *)
(* readings drawn from TempSamples.  The filters keep temp_c below 32768   *)
(* (two-point average) or below 8192 (8-value average).                    *)

TempSamples == {0, 2000, 4000, 7900, 7990, 8000, 8010, 8100, 8200, 30000}

Markers == {MarkNone, MarkOpened, MarkClosed}

Smoothable(target, c) == IF target < EightValueLimit THEN c < Word \div Eight ELSE c <= IntMax

InitDecide ==
  /\ TARGET_TEMPERATURE \in Targets
  /\ RADIATOR_RESPONSE_TIME \in 0..MaxResponse
  /\ temp_c \in {c \in TempSamples : Smoothable(TARGET_TEMPERATURE, c)}
  /\ temp_last \in {c \in TempSamples : Smoothable(TARGET_TEMPERATURE, c)}
  /\ temp_temp_eight = IF UsesEight THEN temp_c * Eight ELSE 0
  /\ temp_temp = 0
  /\ conversion_done = 0
  /\ motor_moved \in Markers
  /\ time = RADIATOR_RESPONSE_TIME + 1
  /\ temp_future = 0
  /\ MOT_OPEN = 0
  /\ MOT_CLOSE = 0
  /\ TEMP_C = 1
  /\ pc = "extrapolate"
  /\ i = PollSlices
  /\ edges = 0
  /\ captured = 0
  /\ fresh = TRUE
  /\ reply = NoReply
  /\ fetched = FALSE
  /\ hist = <<0>>
  /\ cycles = MaxCycles
  /\ since = RADIATOR_RESPONSE_TIME + 1

NextDecide ==
  \/ extrapolate
  \/ motor_close_begin
  \/ motor_close_end
  \/ motor_open_begin
  \/ motor_open_end
  \/ motor_none
  \/ time_reset
  \/ store_last

SpecDecide == InitDecide /\ [][NextDecide]_vars

---------------------------------------------------------------------------
(* The smoothing alone: measurement cycles from power-up in which at most  *)
(* one edge fires, during the wait; raw is what temp_temp holds at the end *)
(* of the wait (0 when no edge fired).                                     *)

measure_cycle(raw) ==
  /\ pc = "start"
  /\ cycles < MaxSamples
  /\ temp_temp' = raw
  /\ conversion_done' = IF raw = 0 THEN 0 ELSE 1
  /\ TEMP_C' = IF raw = 0 THEN 1 ELSE 0
  /\ captured' = raw
  /\ edges' = IF raw = 0 THEN 0 ELSE 1
  /\ fresh' = (raw = 0)
  /\ cycles' = cycles + 1
  /\ IF UsesEight
     THEN /\ temp_temp_eight' = EightAccumulate(temp_temp_eight, temp_c, raw)
          /\ temp_c' = EightSmooth(temp_temp_eight')
     ELSE /\ temp_c' = TwoPointSmooth(temp_c, raw)
          /\ UNCHANGED temp_temp_eight
  /\ hist' = Trailing(hist, raw)
  /\ i' = PollSlices
  /\ UNCHANGED <<config, motor, answer, time, temp_future, pc, reply, fetched, since>>

NextFilter == \E raw \in RawValues \cup {0} : measure_cycle(raw)

SpecFilter == Init /\ [][NextFilter]_vars

---------------------------------------------------------------------------
(* The firmware running on without end, a measurement cycle taken as one   *)
(* step: temp_measure() from line 352 to line 375 with at most one edge,   *)
(* during the wait.  The first cycles, at most MaxVaried of them, deliver  *)
(* a freely chosen reading; from the first cycle that repeats the reading  *)
(* of the cycle before it, every cycle does (cycles stops at MaxVaried).   *)
(* Builds with a RADIATOR_RESPONSE_TIME above MaxResponse are followed     *)
(* with no comparator edge at all.                                         *)

\* readings a cycle may deliver: 0 when no edge fires
SteadyRaws == RawValues \cup Targets \cup {0, 40000}

\* what one call of temp_measure() leaves behind when temp_temp ends as raw
FoldRaw(raw) ==
  /\ temp_temp' = raw
  /\ conversion_done' = IF raw = 0 THEN 0 ELSE 1
  /\ TEMP_C' = IF raw = 0 THEN 1 ELSE 0
  /\ captured' = raw
  /\ edges' = IF raw = 0 THEN 0 ELSE 1
  /\ fresh' = (raw = 0)
  /\ i' = PollSlices
  /\ IF UsesEight
     THEN /\ temp_temp_eight' = EightAccumulate(temp_temp_eight, temp_c, raw)
          /\ temp_c' = EightSmooth(temp_temp_eight')
     ELSE /\ temp_c' = TwoPointSmooth(temp_c, raw)
          /\ UNCHANGED temp_temp_eight

vary_cycle(raw) ==
  /\ pc = "start"
  /\ cycles < MaxVaried
  /\ RADIATOR_RESPONSE_TIME <= MaxResponse
  /\ FoldRaw(raw)
  /\ cycles' = cycles + 1
  /\ pc' = "time"
  /\ UNCHANGED <<config, motor, answer, time, temp_future, reply, fetched, hist, since>>

steady_cycle ==
  /\ pc = "start"
  /\ FoldRaw(temp_temp)
  /\ cycles' = MaxVaried
  /\ pc' = "time"
  /\ UNCHANGED <<config, motor, answer, time, temp_future, reply, fetched, hist, since>>

\* values of RADIATOR_RESPONSE_TIME: the small ones and the end of the range
\* documented at line 89
ResponseTimes == (0..MaxResponse) \cup {Word - 1}

InitSteady ==
  /\ TARGET_TEMPERATURE \in Targets
  /\ RADIATOR_RESPONSE_TIME \in ResponseTimes
  /\ temp_c = 0
  /\ temp_temp = 0
  /\ temp_temp_eight = InitialAccumulator(TARGET_TEMPERATURE)
  /\ conversion_done = 0
  /\ temp_last = 0
  /\ motor_moved = 0
  /\ time = 0
  /\ temp_future = 0
  /\ MOT_OPEN = 0
  /\ MOT_CLOSE = 0
  /\ TEMP_C = 0
  /\ pc = "start"
  /\ i = 0
  /\ edges = 0
  /\ captured = 0
  /\ fresh = FALSE
  /\ reply = NoReply
  /\ fetched = FALSE
  /\ hist = <<>>
  /\ cycles = 0
  /\ since = 0

NextSteady ==
  \/ \E raw \in SteadyRaws : vary_cycle(raw)
  \/ steady_cycle
  \/ time_gate
  \/ extrapolate
  \/ motor_close_begin
  \/ motor_close_end
  \/ motor_open_begin
  \/ motor_open_end
  \/ motor_none
  \/ time_reset
  \/ store_last

\* the main loop never stops: for (;;)
SpecSteady == InitSteady /\ [][NextSteady]_vars /\ WF_vars(NextSteady)

---------------------------------------------------------------------------
(* The smoothing alone, cycle after cycle without end and without history, *)
(* on readings the 8-value average has room for (comment at lines          *)
(* 169..170: readings below 8192).                                         *)

\* readings below 8192: none (no edge), a usual one, the largest
HeadroomRaws == {0, 5000, Word \div Eight - 1}

headroom_cycle(raw) ==
  /\ pc = "start"
  /\ FoldRaw(raw)
  /\ UNCHANGED <<config, motor, answer, time, temp_future, pc, reply, fetched,
                 hist, cycles, since>>

NextHeadroom == \E raw \in HeadroomRaws : headroom_cycle(raw)

SpecHeadroom == Init /\ [][NextHeadroom]_vars

---------------------------------------------------------------------------
(* Properties. *)

\* the extrapolation in mathematical integers
Predicted(c, last) == c + PREDICTION_STEEPNESS * (c - last)

\* the decision on the mathematical extrapolation
SignedAction(c, last, target) ==
  IF Predicted(c, last) < target - THERMISTOR_HYSTERESIS THEN "close"
  ELSE IF Predicted(c, last) > target + THERMISTOR_HYSTERESIS THEN "open"
  ELSE "none"

MarkerOf(action) ==
  CASE action = "close" -> MarkClosed
    [] action = "open" -> MarkOpened
    [] action = "none" -> MarkNone

\* positions of the regulation step at which temp_c and answer.temp_last are
\* the readings the decision was taken on and the decision has been recorded
Decided == pc \in {"reset", "store"}

\* C1: at every regulation decision the selected action is the one the
\* extrapolation in signed (mathematical) arithmetic gives: close below the
\* corridor, open above it, none inside; a negative extrapolation closes.
\* Stated for the decisions whose C arithmetic is defined.
C1_SignedDecision ==
  (Decided /\ ~Overflows(temp_c, temp_last))
    => motor_moved = MarkerOf(SignedAction(temp_c, temp_last, TARGET_TEMPERATURE))

\* C2 as stated: with target 8000, a decision on smoothed 8200 and last 8100
\* closes and a decision on smoothed 7900 and last 8000 opens.
C2_ScenariosAsStated ==
  (Decided /\ TARGET_TEMPERATURE = 8000)
    => /\ (temp_c = 8200 /\ temp_last = 8100) => motor_moved = MarkClosed
       /\ (temp_c = 7900 /\ temp_last = 8000) => motor_moved = MarkOpened

\* C2 amended: with target 8000, a decision on smoothed 8200 and last 8100
\* (extrapolation 8600, above 8050) opens and a decision on smoothed 7900 and
\* last 8000 (extrapolation 7500, below 7950) closes.
C2_Scenarios ==
  (Decided /\ TARGET_TEMPERATURE = 8000)
    => /\ (temp_c = 8200 /\ temp_last = 8100) => motor_moved = MarkOpened
       /\ (temp_c = 7900 /\ temp_last = 8000) => motor_moved = MarkClosed

C2_Witness ==
  /\ pc = "reset"
  /\ TARGET_TEMPERATURE = 8000
  /\ temp_c = 8200
  /\ temp_last = 8100
  /\ motor_moved = MarkOpened

\* the extrapolation lies exactly on an edge of the hysteresis corridor
OnCorridorEdge ==
  \/ Predicted(temp_c, temp_last) = TARGET_TEMPERATURE + THERMISTOR_HYSTERESIS
  \/ Predicted(temp_c, temp_last) = TARGET_TEMPERATURE - THERMISTOR_HYSTERESIS

\* C3: the corridor includes both of its edges: when the extrapolation equals
\* target + hysteresis or target - hysteresis, the regulation step asserts no
\* motor line at any of its positions and records ' ' (no movement).
C3_CorridorInclusive ==
  (OnCorridorEdge /\ pc \in {"act", "closing", "opening", "reset", "store"})
    => /\ MOT_OPEN = 0
       /\ MOT_CLOSE = 0
       /\ pc \notin {"closing", "opening"}
       /\ Decided => motor_moved = MarkNone

C3_Witness ==
  /\ pc = "reset"
  /\ TARGET_TEMPERATURE = 8000
  /\ temp_c = 8010
  /\ temp_last = 8000
  /\ Predicted(temp_c, temp_last) = 8050
  /\ temp_future = 8050
  /\ motor_moved = MarkNone
  /\ MOT_OPEN = 0
  /\ MOT_CLOSE = 0

\* C4: the valve-open line and the valve-close line are never asserted
\* together, whatever the decisions and the interrupts.
C4_MotorExclusive == ~(MOT_OPEN = 1 /\ MOT_CLOSE = 1)

\* an open pulse running after an earlier decision has closed
C4_Witness ==
  /\ pc = "opening"
  /\ MOT_OPEN = 1
  /\ MOT_CLOSE = 0
  /\ motor_moved = MarkClosed

\* C5: of the comparator edges that fire after the guard has been cleared,
\* only the first writes temp_temp; a later edge leaves temp_temp, the guard
\* and the excitation line as they are.
C5_SingleShot ==
  [][(edges' = edges + 1 /\ edges >= 1) => UNCHANGED <<temp_temp, conversion_done, TEMP_C>>]_vars

\* a second edge has fired during the wait and the first capture stands
C5_Witness ==
  /\ pc = "poll"
  /\ edges = 2
  /\ conversion_done = 1
  /\ temp_temp = captured
  /\ temp_temp \in RawValues
  /\ TEMP_C = 0

\* C6: once the start of a measurement has run, the next comparator edge is
\* captured into temp_temp and sets the guard, whether or not the guard was
\* set before.
C6_GuardReset ==
  [][(fresh /\ edges' = edges + 1)
       => (conversion_done = 0 /\ conversion_done' = 1 /\ temp_temp' = captured')]_vars

\* C7: every pass increments the cycle counter after the measurement cycle and
\* runs the regulation step exactly when the incremented counter exceeds
\* RADIATOR_RESPONSE_TIME; the counter is zero after every regulation step; a
\* regulation step starts exactly RADIATOR_RESPONSE_TIME + 1 completed
\* measurement cycles after the previous one (or after power-up).
C7_Cadence ==
  /\ [](pc = "extrapolate" => since = RADIATOR_RESPONSE_TIME + 1)
  /\ [](pc = "start" /\ since = 0 => time = 0)
  /\ [][(pc = "time" /\ pc' # "time")
         => /\ time' = time + 1
            /\ since = time'
            /\ (pc' = "extrapolate") <=> (time' > RADIATOR_RESPONSE_TIME)
            /\ (pc' = "start") <=> (time' <= RADIATOR_RESPONSE_TIME)]_vars

\* the second regulation step of a build with RADIATOR_RESPONSE_TIME 1
C7_Witness ==
  /\ pc = "extrapolate"
  /\ RADIATOR_RESPONSE_TIME = 1
  /\ cycles = 4
  /\ since = 2
  /\ time = 2

\* C8 as stated: the temperature of a status reply is the current temp_c.
C8_ReplyIsSmoothed == reply # NoReply => reply.temp = temp_c

\* C8 amended: the temperature of a status reply is answer.temp_last, the
\* smoothed reading stored by the latest regulation step (0 before the first).
C8_ReplyIsLastObserved == reply # NoReply => reply.temp = temp_last

\* a reply sent after a regulation step, when later cycles have moved temp_c
C8_Witness ==
  /\ reply # NoReply
  /\ reply.temp # 0
  /\ reply.temp # temp_c
  /\ pc = "poll"

\* C9: the motor byte of every status reply is one of ' ', '+' and '-',
\* also before the first regulation step.
C9_ReplyMarker == reply # NoReply => reply.moved \in Markers

\* C10 as stated: once 8 raw readings have been folded in, the output of the
\* 8-value average lies between the least and the greatest of the trailing 8,
\* within one unit.
C10_WithinTrailingEight ==
  (UsesEight /\ Len(hist) = Eight)
    => (SeqMin(hist) - 1 <= temp_c /\ temp_c <= SeqMax(hist) + 1)

\* C10 amended: every update of the 8-value average but the first, when its
\* raw reading is below 8192, puts the output between the previous output and
\* the new raw reading; the first update after power-up, made on the
\* accumulator 8 * TARGET_TEMPERATURE and the output 0, gives
\* ((8 * TARGET_TEMPERATURE + raw) mod 65536) div 8.
C10_BetweenPreviousAndRaw ==
  [][(UsesEight /\ cycles' = cycles + 1)
       => IF cycles = 0
          THEN temp_c' = AsUint16(Eight * TARGET_TEMPERATURE + temp_temp') \div Eight
          ELSE temp_temp' < Word \div Eight
                 => /\ Min2(temp_c, temp_temp') <= temp_c'
                    /\ temp_c' <= Max2(temp_c, temp_temp')]_vars

\* eight equal readings have been folded in and the output is still above them
C10_Witness ==
  /\ UsesEight
  /\ Len(hist) = Eight
  /\ \A k \in 1..Eight : hist[k] = 6000
  /\ temp_c > 6001


\* temp_c is within one unit of the reading the cycles deliver
Settled == temp_c - temp_temp <= 1 /\ temp_temp - temp_c <= 1

\* the reading is one the averaging policy of the build has room for
ReadingInRange == IF UsesEight THEN temp_temp < Word \div Eight ELSE temp_temp <= IntMax

\* C11 as stated: with either averaging policy, once every cycle delivers the
\* same reading V, temp_c gets within one unit of V and stays there.
C11_SettlesAsStated == <>[]Settled

\* C11 amended: with either averaging policy, once every cycle delivers the
\* same reading V, and V is below 8192 for the 8-value average or at most
\* 32767 for the two-point average, temp_c gets within one unit of V and
\* stays there.
C11_SettlesInRange == <>[](ReadingInRange => Settled)

\* the 8-value average has arrived at a steady reading of 6000
C11_Witness ==
  /\ UsesEight
  /\ pc = "time"
  /\ cycles = MaxVaried
  /\ temp_temp = 6000
  /\ temp_c = 6000
  /\ temp_temp_eight \div Eight = 6000

\* C12: with the 8-value average the accumulator divided by 8 is temp_c
\* at every point between two filter updates, startup included; so the first
\* update of the build with target 5800, on a reading of 6000, leaves the
\* accumulator at 46600 and temp_c at 5825.
C12_AccumulatorTracksSmoothed ==
  /\ UsesEight => EightSmooth(temp_temp_eight) = temp_c
  /\ (UsesEight /\ TARGET_TEMPERATURE = 5800 /\ pc = "time" /\ cycles = 1 /\ hist = <<6000>>)
       => (temp_temp_eight = 46600 /\ temp_c = 5825)

\* C13 as stated: once a status reply has carried the motor marker, no
\* further reply before the next regulation decision reports a movement.
C13_ReportedOnce ==
  (fetched /\ reply # NoReply) => reply.moved \notin {MarkOpened, MarkClosed}

\* C13 amended: every status reply carries the current answer.motor_moved,
\* which a reply does not clear; all replies between two regulation
\* decisions carry the marker of the latest decision.
C13_RepeatsMarker == reply # NoReply => reply.moved = motor_moved

\* a second reply after the same decision reports the opening again
C13_Witness ==
  /\ fetched
  /\ reply # NoReply
  /\ reply.moved = MarkOpened
  /\ motor_moved = MarkOpened

\* C14: under every interleaving of the interrupt with the main loop, while
\* the guard is set temp_temp holds the counter value read by the edge that
\* set it, and the reading folded into the average at the end of a cycle
\* whose guard is set is that value.
C14_Handoff ==
  /\ conversion_done = 1 => temp_temp = captured
  /\ (pc = "time" /\ conversion_done = 1) => hist[Len(hist)] = captured

\* C15 as stated: when no edge fires from the start of a measurement to
\* the end of its wait, the guard stays clear and the reading folded into the
\* average is the one temp_temp held at the end of the cycle before.
C15_StaleReading ==
  (pc = "time" /\ edges = 0 /\ Len(hist) >= 2)
    => (conversion_done = 0 /\ hist[Len(hist)] = hist[Len(hist) - 1])

\* C15 amended: when no edge fires from the clearing of the guard to the end
\* of the wait, the guard stays clear and the reading folded into the average
\* is 0, the value the start of the measurement gave temp_temp.
C15_ZeroReading ==
  (pc = "time" /\ edges = 0)
    => (conversion_done = 0 /\ temp_temp = 0 /\ hist[Len(hist)] = 0)

\* a cycle without an edge, after a cycle that captured 5000, has folded 0
C15_Witness ==
  /\ pc = "time"
  /\ edges = 0
  /\ conversion_done = 0
  /\ hist = <<5000, 0>>

\* C16: in every reachable state, under every interleaving of the interrupt
\* with the steps of the start of a measurement, the excitation line TEMP_C
\* is de-asserted while the guard is set.
C16_DischargedWhenDone == conversion_done = 1 => TEMP_C = 0

\* C17: for every RADIATOR_RESPONSE_TIME from 0 to 65535, whether or not
\* comparator edges fire, under fair scheduling of the main loop every
\* measurement cycle completes and the regulation step runs again and again.
C17_DecidesForever == []<>(pc = "time") /\ []<>(pc = "extrapolate")

\* C18: with the 8-value average and every reading below 8192, from startup
\* on no update wraps: taking temp_c out of the accumulator does not go below
\* 0, adding the reading does not exceed 65535 (so the accumulator stored is
\* the exact sum), and temp_c stays below 8192 after every cycle.
C18_NoWrap ==
  [][UsesEight =>
       /\ temp_temp_eight - temp_c >= 0
       /\ temp_temp_eight - temp_c + temp_temp' <= Word - 1
       /\ temp_temp_eight' = temp_temp_eight - temp_c + temp_temp'
       /\ temp_c' < Word \div Eight]_vars

\* the 8-value average at the top of its range: a steady reading of 8191 has
\* brought the accumulator to 8 x 8191 and more
C18_Witness ==
  /\ UsesEight
  /\ temp_temp = Word \div Eight - 1
  /\ temp_c = Word \div Eight - 1
  /\ temp_temp_eight >= Eight * (Word \div Eight - 1)

\* the positions of the main loop inside the regulation step
DecisionSteps == {"extrapolate", "act", "closing", "opening", "reset", "store"}

\* C19: a regulation step gives at most one pulse and records it as it was
\* given: '-' exactly when the close line was raised and lowered in the step,
\* '+' exactly when the open line was, ' ' exactly when neither; both lines
\* are low when the step ends and all through every measurement cycle; and
\* the step leaves in answer.temp_last the temp_c it worked on.
C19_PulseRecorded ==
  [][/\ pc \notin {"closing", "opening"} => (MOT_OPEN = 0 /\ MOT_CLOSE = 0)
     /\ pc' \notin {"closing", "opening"} => (MOT_OPEN' = 0 /\ MOT_CLOSE' = 0)
     /\ (MOT_OPEN' > MOT_OPEN \/ MOT_CLOSE' > MOT_CLOSE)
          => (pc = "act" /\ MOT_OPEN' + MOT_CLOSE' = 1)
     /\ (pc' = "act" /\ pc # "act") => pc = "extrapolate"
     /\ (pc' = "reset" /\ pc # "reset")
          => /\ (motor_moved' = MarkClosed) <=> (pc = "closing" /\ MOT_CLOSE = 1 /\ MOT_CLOSE' = 0)
             /\ (motor_moved' = MarkOpened) <=> (pc = "opening" /\ MOT_OPEN = 1 /\ MOT_OPEN' = 0)
             /\ (motor_moved' = MarkNone) <=> (pc = "act")
     /\ pc \in {"reset", "store"} => motor_moved' = motor_moved
     /\ pc \in DecisionSteps => temp_c' = temp_c
     /\ (pc = "store" /\ pc' = "start") => temp_last' = temp_c]_vars

\* a regulation step has just ended after a pulse on the open line
C19_Witness ==
  /\ pc = "start"
  /\ cycles >= 1
  /\ since = 0
  /\ motor_moved = MarkOpened
  /\ temp_last = temp_c
  /\ temp_c # 0
  /\ MOT_OPEN = 0
  /\ MOT_CLOSE = 0

\* C20: the interrupt handler, fired in any state, leaves temp_c, the
\* accumulator, answer.temp_last, the cycle counter, the motor marker and
\* both motor lines as they are; of the program's state it changes at most
\* temp_temp, the guard and the excitation line.
C20_HandlerFrame ==
  [][edges' = edges + 1 =>
       /\ UNCHANGED <<temp_c, temp_temp_eight, temp_last, time, motor_moved>>
       /\ UNCHANGED <<MOT_OPEN, MOT_CLOSE>>
       /\ UNCHANGED <<TARGET_TEMPERATURE, RADIATOR_RESPONSE_TIME, temp_future, pc, i>>]_vars

\* an edge was captured after the wait had ended with nothing captured, and
\* the open pulse that is running, the marker and the average are as they were
C20_Witness ==
  /\ pc = "opening"
  /\ MOT_OPEN = 1
  /\ hist[Len(hist)] = 0
  /\ conversion_done = 1
  /\ temp_temp = captured
  /\ temp_temp # 0
  /\ temp_c # temp_temp

====
